---- MODULE Spec2Model ----
(***************************************************************************)
(* Model of src/main.py: the EJC map pipeline.                             *)
(*                                                                         *)
(* main() reads a colour palette (JSON) and a dataset of editions (CSV),   *)
(* groups the editions by host location, joins the group summaries back    *)
(* onto the rows, attaches a cycled colour to every row, builds a map      *)
(* figure and writes three output artifacts.                               *)
(*                                                                         *)
(* Data representation                                                     *)
(*   - a cell of a data frame is NA (<<>>, pandas NaN) or Some(v) (<<v>>); *)
(*   - a Python str produced by the program (the aggregated issue / year   *)
(*     labels) is a sequence of one-character strings, so that str() and   *)
(*     " | ".join() are computed character by character;                   *)
(*   - city / country / colour tokens are atoms (TLA+ strings);            *)
(*   - latitude / longitude are exact decimal values, held in hundredths   *)
(*     of a degree (48.85 -> 4885): only their equality and order matter;  *)
(*   - a function result is Ok(v) or Raise(e) (a Python exception).        *)
(***************************************************************************)
EXTENDS Integers, Sequences, FiniteSets, TLC

VARIABLES pc, colors, df_ejcs_raw, df_ejcs_grouped, df_ejcs_joined,
          extended_colors, df_ejcs, fig, shown, written, error, failed_at

vars == <<pc, colors, df_ejcs_raw, df_ejcs_grouped, df_ejcs_joined,
          extended_colors, df_ejcs, fig, shown, written, error, failed_at>>

----------------------------------------------------------------------------
(* Bounds of the explored inputs *)

MaxRows == 3

MaxPalette == 2

MaxCount == 5

----------------------------------------------------------------------------
(* Values *)

NA == <<>>

Some(v) == <<v>>

Ok(v) == [exc |-> "", val |-> v]

Raise(e) == [exc |-> e, val |-> <<>>]

Unset == <<>>

NoFig == [line |-> <<>>, traces |-> <<>>]

----------------------------------------------------------------------------
(* Inputs: contents of resources/colors.json and resources/list_of_ejcs.csv *)

ColorTokens == {"red", "green"}

Palettes == UNION {[1..n -> ColorTokens] : n \in 0..MaxPalette}

LocationKeys ==
    { [city |-> Some("Paris"), country |-> Some("France"),
       latitude |-> Some(4885), longitude |-> Some(235)],
      [city |-> Some("Lyon"), country |-> Some("France"),
       latitude |-> Some(4576), longitude |-> Some(484)],
      [city |-> NA, country |-> Some("France"),
       latitude |-> Some(4885), longitude |-> Some(235)] }

(* (issue, year) of an edition *)
Editions == {<<1, 1990>>, <<2, 1995>>}

EventRecords ==
    { [issue |-> Some(e[1]), year |-> Some(e[2]), city |-> k.city,
       country |-> k.country, latitude |-> k.latitude,
       longitude |-> k.longitude] :
         e \in Editions, k \in LocationKeys }

Datasets == UNION {[1..n -> EventRecords] : n \in 0..MaxRows}

----------------------------------------------------------------------------
(* Python str() and str.join() *)

Digits == <<"0", "1", "2", "3", "4", "5", "6", "7", "8", "9">>

RECURSIVE str(_)
str(n) == IF n < 10 THEN <<Digits[n + 1]>>
          ELSE str(n \div 10) \o <<Digits[(n % 10) + 1]>>

Separator == <<" ", "|", " ">>

RECURSIVE join(_, _)
join(sep, xs) ==
    IF Len(xs) = 0 THEN <<>>
    ELSE IF Len(xs) = 1 THEN xs[1]
    ELSE xs[1] \o sep \o join(sep, Tail(xs))

(* Python string order on the atoms of the model *)
Lexicon == <<"France", "Lyon", "Paris">>

StrRank(s) == CHOOSE i \in 1..Len(Lexicon) : Lexicon[i] = s

----------------------------------------------------------------------------
(* Data-frame helpers *)

Key(r) == [city |-> r.city, country |-> r.country,
           latitude |-> r.latitude, longitude |-> r.longitude]

HasNA(k) == k.city = NA \/ k.country = NA \/ k.latitude = NA \/ k.longitude = NA

KeyTuple(k) == <<StrRank(k.city[1]), StrRank(k.country[1]),
                 k.latitude[1], k.longitude[1]>>

RECURSIVE TupleLess(_, _)
TupleLess(a, b) ==
    IF Len(a) = 0 THEN FALSE
    ELSE IF a[1] # b[1] THEN a[1] < b[1]
    ELSE TupleLess(Tail(a), Tail(b))

KeyLess(a, b) == TupleLess(KeyTuple(a), KeyTuple(b))

RECURSIVE SortKeys(_)
SortKeys(S) ==
    IF S = {} THEN <<>>
    ELSE LET m == CHOOSE k \in S : \A o \in S \ {k} : KeyLess(k, o)
         IN  <<m>> \o SortKeys(S \ {m})

Column(df, c) == [i \in 1..Len(df) |-> df[i][c]]

----------------------------------------------------------------------------
(* _extend_colors (lines 146-149) *)

Repeat(q, xs) == [i \in 1..(q * Len(xs)) |-> xs[((i - 1) % Len(xs)) + 1]]

_extend_colors_suffix(colors_, n_entries) ==
    IF Len(colors_) = 0 THEN Raise("ZeroDivisionError")
    ELSE LET q == n_entries \div Len(colors_)
             r == n_entries % Len(colors_)
         IN  Ok(Repeat(q, colors_) \o SubSeq(colors_, Len(colors_) - r + 1, Len(colors_)))

_extend_colors_guard(colors_, n_entries) ==
    IF n_entries = 0 THEN Ok(<<>>)
    ELSE IF Len(colors_) = 0 THEN Raise("ZeroDivisionError")
    ELSE LET q == n_entries \div Len(colors_)
             r == n_entries % Len(colors_)
         IN  Ok(Repeat(q, colors_) \o SubSeq(colors_, 1, r))

_extend_colors(colors_, n_entries) ==
    IF Len(colors_) = 0 THEN Raise("ZeroDivisionError")
    ELSE LET q == n_entries \div Len(colors_)
             r == n_entries % Len(colors_)
         IN  Ok(Repeat(q, colors_) \o SubSeq(colors_, 1, r))

----------------------------------------------------------------------------
(* _group_same_hosts (lines 126-137)                                       *)
(* groupby(keys) drops the rows with a missing key field (dropna=True),    *)
(* orders the groups by key (sort=True) and keeps the rows of a group in   *)
(* their original order; agg turns each group's issue and year columns     *)
(* into " | ".join(map(str, x)); reset_index makes the keys columns again. *)

Members(df, k) == SelectSeq(df, LAMBDA r : Key(r) = k)

Reverse(xs) == [i \in 1..Len(xs) |-> xs[Len(xs) + 1 - i]]

agg(x) == join(Separator, [i \in 1..Len(x) |-> str(x[i][1])])

GroupKeys(df) == SortKeys({Key(df[i]) : i \in {j \in 1..Len(df) : ~HasNA(Key(df[j]))}})

_group_same_hosts_reversed(df) ==
    LET keys == GroupKeys(df)
    IN  [g \in 1..Len(keys) |->
            [city |-> keys[g].city, country |-> keys[g].country,
             latitude |-> keys[g].latitude, longitude |-> keys[g].longitude,
             issue |-> Some(agg(Reverse(Column(Members(df, keys[g]), "issue")))),
             year |-> Some(agg(Reverse(Column(Members(df, keys[g]), "year"))))]]

_group_same_hosts(df) ==
    LET keys == GroupKeys(df)
    IN  [g \in 1..Len(keys) |->
            [city |-> keys[g].city, country |-> keys[g].country,
             latitude |-> keys[g].latitude, longitude |-> keys[g].longitude,
             issue |-> Some(agg(Column(Members(df, keys[g]), "issue"))),
             year |-> Some(agg(Column(Members(df, keys[g]), "year")))]]

----------------------------------------------------------------------------
(* _join_ejcs_grouped (lines 115-123)                                      *)
(* filter keeps the four key columns of the left frame; merge(how="left")  *)
(* walks the left rows in order and emits one output row per matching      *)
(* right row, or one row with missing issue / year when nothing matches.   *)
(* Missing key values compare equal to each other in a merge.              *)

Joined(k, issue, year) ==
    [city |-> k.city, country |-> k.country, latitude |-> k.latitude,
     longitude |-> k.longitude, issue |-> issue, year |-> year]

Matches(k, right) == SelectSeq(right, LAMBDA g : Key(g) = k)

RECURSIVE merge(_, _, _)
merge(left, right, how) ==
    IF Len(left) = 0 THEN <<>>
    ELSE LET k == left[1]
             m == Matches(k, right)
             rows == IF Len(m) = 0
                     THEN CASE how = "left" -> <<Joined(k, NA, NA)>>
                            [] how = "inner" -> <<>>
                            [] how = "left_fillna" -> <<Joined(k, Some(<<>>), Some(<<>>))>>
                     ELSE [j \in 1..Len(m) |-> Joined(k, m[j].issue, m[j].year)]
         IN  rows \o merge(Tail(left), right, how)

filter(df) == [i \in 1..Len(df) |-> Key(df[i])]

_join_ejcs_grouped_inner(df, grouped) == merge(filter(df), grouped, "inner")

_join_ejcs_grouped_fillna(df, grouped) == merge(filter(df), grouped, "left_fillna")

_join_ejcs_grouped(df, grouped) == merge(filter(df), grouped, "left")

----------------------------------------------------------------------------
(* DataFrame.assign(color=...) (line 112): the list is attached by         *)
(* position and must have as many elements as the frame has rows.          *)

WithColor(r, c) ==
    [city |-> r.city, country |-> r.country, latitude |-> r.latitude,
     longitude |-> r.longitude, issue |-> r.issue, year |-> r.year, color |-> c]

FirstIndex(df, k) == CHOOSE i \in 1..Len(df) : Key(df[i]) = k /\ \A j \in 1..(i - 1) : Key(df[j]) # k

assign_by_group(df, color) ==
    IF Len(color) # Len(df) THEN Raise("ValueError")
    ELSE Ok([i \in 1..Len(df) |-> WithColor(df[i], color[FirstIndex(df, Key(df[i]))])])

assign(df, color) ==
    IF Len(color) # Len(df) THEN Raise("ValueError")
    ELSE Ok([i \in 1..Len(df) |-> WithColor(df[i], color[i])])

----------------------------------------------------------------------------
(* create_map (lines 63-103)                                               *)
(* line_map draws one line trace through the rows' coordinates in row      *)
(* order; scatter_map draws one marker per row, one trace per distinct     *)
(* value of the color column in order of first appearance.                 *)

RECURSIVE Distinct(_)
Distinct(xs) ==
    IF Len(xs) = 0 THEN <<>>
    ELSE <<xs[1]>> \o Distinct(SelectSeq(Tail(xs), LAMBDA x : x # xs[1]))

Point(r) == [lat |-> r.latitude, lon |-> r.longitude,
             customdata |-> <<r.issue, r.year, r.city, r.country>>]

scatter_map(df) ==
    LET names == Distinct(Column(df, "color"))
    IN  [t \in 1..Len(names) |->
            LET rows == SelectSeq(df, LAMBDA r : r.color = names[t])
            IN  [name |-> names[t], points |-> [i \in 1..Len(rows) |-> Point(rows[i])]]]

line_map(df) == [i \in 1..Len(df) |-> <<df[i].latitude, df[i].longitude>>]

drop_duplicates(df) ==
    SelectSeq([i \in 1..Len(df) |-> IF FirstIndex(df, Key(df[i])) = i THEN Some(df[i]) ELSE NA],
              LAMBDA o : o # NA)

create_map_per_location(df) ==
    LET u == drop_duplicates(df)
    IN  [line |-> line_map(df), traces |-> scatter_map([i \in 1..Len(u) |-> u[i][1]])]

create_map(df) == [line |-> line_map(df), traces |-> scatter_map(df)]

RECURSIVE SumLen(_)
SumLen(ts) == IF Len(ts) = 0 THEN 0 ELSE Len(ts[1].points) + SumLen(Tail(ts))

NumMarkers(f) == SumLen(f.traces)

----------------------------------------------------------------------------
(* main (lines 9-25), prepare_ejcs (lines 106-112), create_output (28-60)  *)
(* pc names the statement that runs next.  An exception raised by any      *)
(* statement propagates out of main: the run ends in pc = "aborted" with   *)
(* the exception in error and the failing statement in failed_at.          *)

width_px == 1000

height_px == 800

ColorFiles == {[status |-> "missing", data |-> <<>>], [status |-> "malformed", data |-> <<>>]}
                \cup {[status |-> "ok", data |-> p] : p \in Palettes}

EjcFiles == {[status |-> "missing", data |-> <<>>]}
              \cup {[status |-> "ok", data |-> d] : d \in Datasets}

_read_colors(file) ==
    CASE file.status = "missing" -> Raise("FileNotFoundError")
      [] file.status = "malformed" -> Raise("JSONDecodeError")
      [] OTHER -> Ok(file.data)

read_csv(file) ==
    IF file.status = "missing" THEN Raise("FileNotFoundError") ELSE Ok(file.data)

Abort(e) ==
    /\ pc' = "aborted"
    /\ error' = e
    /\ failed_at' = pc

Init ==
    /\ pc = "read_colors"
    /\ colors = Unset
    /\ df_ejcs_raw = Unset
    /\ df_ejcs_grouped = Unset
    /\ df_ejcs_joined = Unset
    /\ extended_colors = Unset
    /\ df_ejcs = Unset
    /\ fig = NoFig
    /\ shown = FALSE
    /\ written = <<>>
    /\ error = ""
    /\ failed_at = ""

(* a main that opens index.html for writing before it loads its inputs *)
ReadColors_outputs_first ==
    /\ pc = "read_colors"
    /\ written' = <<"index.html">>
    /\ \E file \in ColorFiles :
         LET res == _read_colors(file)
         IN  IF res.exc # ""
             THEN Abort(res.exc) /\ UNCHANGED colors
             ELSE /\ colors' = res.val
                  /\ pc' = "read_csv"
                  /\ UNCHANGED <<error, failed_at>>
    /\ UNCHANGED <<df_ejcs_raw, df_ejcs_grouped, df_ejcs_joined, extended_colors,
                   df_ejcs, fig, shown>>

(* line 15 *)
ReadColors ==
    /\ pc = "read_colors"
    /\ \E file \in ColorFiles :
         LET res == _read_colors(file)
         IN  IF res.exc # ""
             THEN Abort(res.exc) /\ UNCHANGED colors
             ELSE /\ colors' = res.val
                  /\ pc' = "read_csv"
                  /\ UNCHANGED <<error, failed_at>>
    /\ UNCHANGED <<df_ejcs_raw, df_ejcs_grouped, df_ejcs_joined, extended_colors,
                   df_ejcs, fig, shown, written>>

(* line 107 *)
ReadCsv ==
    /\ pc = "read_csv"
    /\ \E file \in EjcFiles :
         LET res == read_csv(file)
         IN  IF res.exc # ""
             THEN Abort(res.exc) /\ UNCHANGED df_ejcs_raw
             ELSE /\ df_ejcs_raw' = res.val
                  /\ pc' = "group"
                  /\ UNCHANGED <<error, failed_at>>
    /\ UNCHANGED <<colors, df_ejcs_grouped, df_ejcs_joined, extended_colors,
                   df_ejcs, fig, shown, written>>

(* line 108 *)
GroupSameHosts ==
    /\ pc = "group"
    /\ df_ejcs_grouped' = _group_same_hosts(df_ejcs_raw)
    /\ pc' = "join"
    /\ UNCHANGED <<colors, df_ejcs_raw, df_ejcs_joined, extended_colors,
                   df_ejcs, fig, shown, written, error, failed_at>>

(* line 109 *)
JoinEjcsGrouped ==
    /\ pc = "join"
    /\ df_ejcs_joined' = _join_ejcs_grouped(df_ejcs_raw, df_ejcs_grouped)
    /\ pc' = "extend"
    /\ UNCHANGED <<colors, df_ejcs_raw, df_ejcs_grouped, extended_colors,
                   df_ejcs, fig, shown, written, error, failed_at>>

(* line 111 *)
ExtendColors ==
    /\ pc = "extend"
    /\ LET res == _extend_colors(colors, Len(df_ejcs_raw))
       IN  IF res.exc # ""
           THEN Abort(res.exc) /\ UNCHANGED extended_colors
           ELSE /\ extended_colors' = res.val
                /\ pc' = "assign"
                /\ UNCHANGED <<error, failed_at>>
    /\ UNCHANGED <<colors, df_ejcs_raw, df_ejcs_grouped, df_ejcs_joined,
                   df_ejcs, fig, shown, written>>

(* lines 112 and 16 *)
AssignColor ==
    /\ pc = "assign"
    /\ LET res == assign(df_ejcs_joined, extended_colors)
       IN  IF res.exc # ""
           THEN Abort(res.exc) /\ UNCHANGED df_ejcs
           ELSE /\ df_ejcs' = res.val
                /\ pc' = "create_map"
                /\ UNCHANGED <<error, failed_at>>
    /\ UNCHANGED <<colors, df_ejcs_raw, df_ejcs_grouped, df_ejcs_joined,
                   extended_colors, fig, shown, written>>

(* line 17 *)
CreateMap ==
    /\ pc = "create_map"
    /\ fig' = create_map(df_ejcs)
    /\ pc' = "show"
    /\ UNCHANGED <<colors, df_ejcs_raw, df_ejcs_grouped, df_ejcs_joined,
                   extended_colors, df_ejcs, shown, written, error, failed_at>>

(* lines 36-41, with show_figure = True *)
ShowFigure ==
    /\ pc = "show"
    /\ shown' = TRUE
    /\ pc' = "write_html"
    /\ UNCHANGED <<colors, df_ejcs_raw, df_ejcs_grouped, df_ejcs_joined,
                   extended_colors, df_ejcs, fig, written, error, failed_at>>

(* A blocking write either completes or raises (OSError). *)
Write(path, next) ==
    \E io_ok \in BOOLEAN :
        IF io_ok
        THEN /\ written' = Append(written, path)
             /\ pc' = next
             /\ UNCHANGED <<error, failed_at>>
        ELSE Abort("OSError") /\ UNCHANGED written

(* lines 43-49, with save_figure = True *)
WriteHtml ==
    /\ pc = "write_html"
    /\ Write("output/ejc_map.html", "write_index")
    /\ UNCHANGED <<colors, df_ejcs_raw, df_ejcs_grouped, df_ejcs_joined,
                   extended_colors, df_ejcs, fig, shown>>

(* lines 50-54 *)
WriteIndex ==
    /\ pc = "write_index"
    /\ Write("index.html", "write_image")
    /\ UNCHANGED <<colors, df_ejcs_raw, df_ejcs_grouped, df_ejcs_joined,
                   extended_colors, df_ejcs, fig, shown>>

(* lines 55-60 *)
WriteImage ==
    /\ pc = "write_image"
    /\ Write("output/ejc_map.webp", "done")
    /\ UNCHANGED <<colors, df_ejcs_raw, df_ejcs_grouped, df_ejcs_joined,
                   extended_colors, df_ejcs, fig, shown>>

Next ==
    \/ ReadColors
    \/ ReadCsv
    \/ GroupSameHosts
    \/ JoinEjcsGrouped
    \/ ExtendColors
    \/ AssignColor
    \/ CreateMap
    \/ ShowFigure
    \/ WriteHtml
    \/ WriteIndex
    \/ WriteImage

Spec == Init /\ [][Next]_vars

----------------------------------------------------------------------------
(* Position of the run, for stating properties *)

Steps == <<"read_colors", "read_csv", "group", "join", "extend", "assign",
           "create_map", "show", "write_html", "write_index", "write_image", "done">>

Pos(p) == CHOOSE i \in 1..Len(Steps) : Steps[i] = p

Now == IF pc = "aborted" THEN failed_at ELSE pc

(* the statement named step has completed without raising *)
Past(step) == Pos(Now) > Pos(step)

Cycled(P, i) == P[(i % Len(P)) + 1]

RowKeys(df) == {Key(df[i]) : i \in 1..Len(df)}

SummariesOf(k) == {g \in 1..Len(df_ejcs_grouped) : Key(df_ejcs_grouped[g]) = k}

(* the label of location k built row by row from the frame df *)
RECURSIVE Label(_, _, _)
Label(df, k, col) ==
    IF Len(df) = 0 THEN <<>>
    ELSE LET rest == Label(Tail(df), k, col)
         IN  IF Key(df[1]) # k THEN rest
             ELSE IF rest = <<>> THEN str(df[1][col][1])
             ELSE str(df[1][col][1]) \o <<" ", "|", " ">> \o rest

(* Python s.split(sep) on character sequences *)
RECURSIVE split(_, _)
split(s, sep) ==
    LET hits == {i \in 1..(Len(s) - Len(sep) + 1) : SubSeq(s, i, i + Len(sep) - 1) = sep}
    IN  IF hits = {} THEN <<s>>
        ELSE LET i == CHOOSE h \in hits : \A o \in hits : h <= o
             IN  <<SubSeq(s, 1, i - 1)>> \o split(SubSeq(s, i + Len(sep), Len(s)), sep)

Paris(i, y) == [issue |-> Some(i), year |-> Some(y), city |-> Some("Paris"),
                country |-> Some("France"), latitude |-> Some(4885),
                longitude |-> Some(235)]

----------------------------------------------------------------------------
(* C1: for a non-empty palette P and any count n >= 0, _extend_colors(P, n) *)
(* returns exactly n elements and element i is P[i mod len(P)]; the list    *)
(* built in the run (n = number of raw rows) is of that form, and           *)
(* ["red","green"] cycled to 5 is red, green, red, green, red.              *)
C1_ExtendColorsCycles ==
    (Past("read_colors") /\ Len(colors) > 0) =>
        /\ \A n \in 0..MaxCount :
             LET res == _extend_colors(colors, n)
             IN  /\ res.exc = ""
                 /\ Len(res.val) = n
                 /\ \A i \in 0..(n - 1) : res.val[i + 1] = Cycled(colors, i)
        /\ Past("extend") =>
             /\ Len(extended_colors) = Len(df_ejcs_raw)
             /\ \A i \in 0..(Len(df_ejcs_raw) - 1) :
                  extended_colors[i + 1] = Cycled(colors, i)
        /\ colors = <<"red", "green">> =>
             _extend_colors(colors, 5).val = <<"red", "green", "red", "green", "red">>

C1_Witness ==
    /\ Past("extend")
    /\ colors = <<"red", "green">>
    /\ Len(df_ejcs_raw) = 3
    /\ extended_colors = <<"red", "green", "red">>

(* C2: the joined frame has as many rows as the raw dataset and its k-th    *)
(* row carries the location key of the k-th raw row; the grouped frame has  *)
(* at most one row per location key.                                        *)
C2_JoinKeepsRows ==
    Past("join") =>
        /\ Len(df_ejcs_joined) = Len(df_ejcs_raw)
        /\ \A k \in 1..Len(df_ejcs_raw) :
             k <= Len(df_ejcs_joined) /\ Key(df_ejcs_joined[k]) = Key(df_ejcs_raw[k])
        /\ \A g, h \in 1..Len(df_ejcs_grouped) :
             Key(df_ejcs_grouped[g]) = Key(df_ejcs_grouped[h]) => g = h

C2_Witness ==
    /\ Past("join")
    /\ Len(df_ejcs_raw) = 3
    /\ Key(df_ejcs_raw[1]) = Key(df_ejcs_raw[3])
    /\ Key(df_ejcs_raw[1]) # Key(df_ejcs_raw[2])
    /\ HasNA(Key(df_ejcs_raw[2]))
    /\ Len(df_ejcs_joined) = 3

(* C3: grouping is a total partition: every raw row, also one with a        *)
(* missing key field, has exactly one summary with its key, and splitting   *)
(* a summary's issue string on " | " gives the issue values of its rows.    *)
C3_GroupingIsTotalPartition ==
    Past("group") =>
        /\ \A k \in 1..Len(df_ejcs_raw) :
             Cardinality(SummariesOf(Key(df_ejcs_raw[k]))) = 1
        /\ \A key \in RowKeys(df_ejcs_raw) : Cardinality(SummariesOf(key)) = 1
        /\ \A g \in 1..Len(df_ejcs_grouped) :
             LET rows == Members(df_ejcs_raw, Key(df_ejcs_grouped[g]))
             IN  split(df_ejcs_grouped[g].issue[1], Separator)
                   = [i \in 1..Len(rows) |-> str(rows[i].issue[1])]

(* C4: after prepare_ejcs the i-th row (raw order) has colour               *)
(* palette[i mod len(palette)], whatever its location group.                *)
C4_ColorsArePositional ==
    Past("assign") =>
        /\ Len(colors) > 0
        /\ Len(df_ejcs) = Len(df_ejcs_raw)
        /\ \A i \in 0..(Len(df_ejcs_raw) - 1) :
             /\ Key(df_ejcs[i + 1]) = Key(df_ejcs_raw[i + 1])
             /\ df_ejcs[i + 1].color = Cycled(colors, i)

C4_Witness ==
    /\ Past("assign")
    /\ Len(df_ejcs_raw) = 3
    /\ Key(df_ejcs_raw[1]) = Key(df_ejcs_raw[2])
    /\ df_ejcs[1].color # df_ejcs[2].color
    /\ df_ejcs[3].color = df_ejcs[1].color

(* C5: a summary's issue (year) string is the string forms of its rows'     *)
(* issue (year) values in original order joined with " | ", and every raw   *)
(* row of the group carries that pair after the join; two Paris rows        *)
(* (1, 1990), (2, 1995) both carry "1 | 2" and "1990 | 1995".               *)
C5_LabelsInRowOrder ==
    Past("join") =>
        /\ \A g \in 1..Len(df_ejcs_grouped) :
             LET s == df_ejcs_grouped[g]
             IN  /\ s.issue = Some(Label(df_ejcs_raw, Key(s), "issue"))
                 /\ s.year = Some(Label(df_ejcs_raw, Key(s), "year"))
                 /\ \A k \in 1..Len(df_ejcs_raw) :
                      Key(df_ejcs_raw[k]) = Key(s) =>
                        /\ k <= Len(df_ejcs_joined)
                        /\ df_ejcs_joined[k].issue = s.issue
                        /\ df_ejcs_joined[k].year = s.year
        /\ df_ejcs_raw = <<Paris(1, 1990), Paris(2, 1995)>> =>
             \A k \in 1..2 :
                /\ df_ejcs_joined[k].issue = Some(<<"1", " ", "|", " ", "2">>)
                /\ df_ejcs_joined[k].year =
                     Some(<<"1", "9", "9", "0", " ", "|", " ", "1", "9", "9", "5">>)

C5_Witness ==
    /\ Past("join")
    /\ df_ejcs_raw = <<Paris(1, 1990), Paris(2, 1995)>>
    /\ Len(df_ejcs_grouped) = 1
    /\ df_ejcs_joined[2].issue = Some(<<"1", " ", "|", " ", "2">>)

(* C6: no output write starts before the palette is loaded and the dataset  *)
(* is prepared; a run that aborts in _read_colors or in prepare_ejcs has    *)
(* written none of the three artifacts.                                     *)
PrepareSteps == {"read_csv", "group", "join", "extend", "assign"}

C6_NoOutputBeforePrepare ==
    /\ (written # <<>> \/ Pos(Now) >= Pos("write_html")) =>
          (Past("read_colors") /\ Past("assign"))
    /\ (pc = "aborted" /\ failed_at \in ({"read_colors"} \cup PrepareSteps)) =>
          (written = <<>> /\ error # "")

C6_Witness ==
    /\ pc = "aborted"
    /\ failed_at = "read_colors"
    /\ error = "FileNotFoundError"
    /\ written = <<>>

(* C7: with an empty palette _extend_colors raises ZeroDivisionError for    *)
(* every n >= 0, n = 0 included, and the run aborts there without an        *)
(* annotated frame.                                                         *)
C7_EmptyPaletteFails ==
    (Past("read_colors") /\ colors = <<>>) =>
        /\ \A n \in 0..MaxCount : _extend_colors(colors, n).exc = "ZeroDivisionError"
        /\ ~Past("extend")
        /\ (pc = "aborted" /\ failed_at = "extend") =>
             (error = "ZeroDivisionError" /\ df_ejcs = Unset /\ written = <<>>)

C7_Witness ==
    /\ pc = "aborted"
    /\ failed_at = "extend"
    /\ error = "ZeroDivisionError"
    /\ colors = <<>>
    /\ df_ejcs_raw = <<>>

(* C8: in the join a record whose key matches no summary stays at its       *)
(* position with issue and year missing, a record whose key matches gets    *)
(* exactly one summary, and the join raises nothing.                        *)
C8_UnmatchedKeepsRowWithNulls ==
    /\ ~(pc = "aborted" /\ failed_at = "join")
    /\ Past("join") =>
         /\ Len(df_ejcs_joined) = Len(df_ejcs_raw)
         /\ \A k \in 1..Len(df_ejcs_raw) :
              LET m == SummariesOf(Key(df_ejcs_raw[k]))
              IN  /\ k <= Len(df_ejcs_joined)
                  /\ Key(df_ejcs_joined[k]) = Key(df_ejcs_raw[k])
                  /\ m = {} => (df_ejcs_joined[k].issue = NA /\ df_ejcs_joined[k].year = NA)
                  /\ m # {} =>
                       /\ Cardinality(m) = 1
                       /\ \A g \in m : /\ df_ejcs_joined[k].issue = df_ejcs_grouped[g].issue
                                       /\ df_ejcs_joined[k].year = df_ejcs_grouped[g].year

C8_Witness ==
    /\ Past("join")
    /\ Len(df_ejcs_raw) = 2
    /\ HasNA(Key(df_ejcs_raw[1]))
    /\ df_ejcs_joined[1].issue = NA
    /\ df_ejcs_joined[2].issue # NA

(* C10 as stated: create_map draws as many markers as there are distinct    *)
(* location keys, and the line visits the coordinates in raw order.         *)
C10_OneMarkerPerLocation ==
    Past("create_map") =>
        /\ NumMarkers(fig) = Cardinality(RowKeys(df_ejcs_raw))
        /\ fig.line = [i \in 1..Len(df_ejcs_raw) |->
                         <<df_ejcs_raw[i].latitude, df_ejcs_raw[i].longitude>>]

(* C10 amended: create_map draws one marker per raw row, so editions that   *)
(* share a host location give coinciding markers, each with the row's       *)
(* coordinates; the line visits the coordinates in raw order.               *)
C10_OneMarkerPerRecord ==
    Past("create_map") =>
        /\ NumMarkers(fig) = Len(df_ejcs_raw)
        /\ \A k \in RowKeys(df_ejcs_raw) :
             SumLen([t \in 1..Len(fig.traces) |->
                       [points |-> SelectSeq(fig.traces[t].points,
                                     LAMBDA p : p.lat = k.latitude /\ p.lon = k.longitude
                                                /\ p.customdata[3] = k.city)]])
               = Len(Members(df_ejcs_raw, k))
        /\ fig.line = [i \in 1..Len(df_ejcs_raw) |->
                         <<df_ejcs_raw[i].latitude, df_ejcs_raw[i].longitude>>]

C10_Witness ==
    /\ Past("create_map")
    /\ Len(df_ejcs_raw) = 2
    /\ Key(df_ejcs_raw[1]) = Key(df_ejcs_raw[2])
    /\ ~HasNA(Key(df_ejcs_raw[1]))
    /\ NumMarkers(fig) = 2

====
